---- MODULE Spec2Model ----
(***************************************************************************)
(* Model of web_static/index.js: the guard that vetoes an htmx server-sent *)
(* live update while a range input inside the updated region is dragged.   *)
(*                                                                         *)
(*   htmx.onLoad(function () {                                             *)
(*     document.body.addEventListener("htmx:sseBeforeMessage",             *)
(*       function (event) {                                                *)
(*         if (event.target.querySelector(                                 *)
(*               "input[type=range][data-dragging=true]") !== null) {      *)
(*           event.preventDefault();                                       *)
(*         }                                                               *)
(*       });                                                               *)
(*   });                                                                   *)
(*                                                                         *)
(* The DOM is a small tree of elements; every element has a kind (what the *)
(* selector's "input[type=range]" part looks at) and a data-dragging       *)
(* attribute (absent, or a string).  The host (htmx and the browser's      *)
(* event loop) dispatches the event, runs every registered listener to     *)
(* completion, and then applies or drops the update.                       *)
(***************************************************************************)
EXTENDS Integers, Sequences, FiniteSets

VARIABLES
    kind,        \* kind[n]: "div", "range" (input type=range) or "text" (input type=text)
    dragging,    \* dragging[n]: value of the data-dragging attribute of n, or Absent
    listeners,   \* number of guard listeners registered on document.body
    loads,       \* number of htmx:load notifications delivered to the onLoad callback
    event,       \* the htmx:sseBeforeMessage event being dispatched, or NoEvent
    lastOutcome  \* what the host did with the previous live update

vars == <<kind, dragging, listeners, loads, event, lastOutcome>>

----------------------------------------------------------------------------
(* Bounds of the model *)

NumNodes == 4
MaxLoads == 3

----------------------------------------------------------------------------
(* The DOM: node 0 is document.body, the children of n are 2n+1 and 2n+2 *)

Nodes == 0 .. (NumNodes - 1)

Body == 0

Null == -1

Children(n) == {c \in Nodes : c = 2 * n + 1 \/ c = 2 * n + 2}

IsLeaf(n) == Children(n) = {}

\* input elements are void elements: only a leaf can be one
KindsOf(n) == IF n = Body \/ ~IsLeaf(n) THEN {"div"} ELSE {"range", "text"}

Absent == "(no attribute)"

FalsyValues == {"false", "0", ""}

MarkerValues == {"true"} \cup FalsyValues

AttrValues == {Absent} \cup MarkerValues

\* elements of the subtree rooted at n, in document order (n first)
RECURSIVE PreOrder(_)
PreOrder(n) ==
    <<n>>
    \o (IF 2 * n + 1 \in Nodes THEN PreOrder(2 * n + 1) ELSE <<>>)
    \o (IF 2 * n + 2 \in Nodes THEN PreOrder(2 * n + 2) ELSE <<>>)

----------------------------------------------------------------------------
(* The selector and querySelector *)

\* mutant: [data-dragging] -- the attribute's presence is enough
MatchesPresence(n) ==
    /\ kind[n] = "range"
    /\ dragging[n] # Absent

\* mutant: [data-dragging=true] -- any element, not only input[type=range]
MatchesAnyElement(n) ==
    /\ dragging[n] # Absent
    /\ dragging[n] = "true"

\* n matches input[type=range][data-dragging=true]
MatchesSelector(n) ==
    /\ kind[n] = "range"
    /\ dragging[n] # Absent
    /\ dragging[n] = "true"

FirstMatch(s) ==
    LET idx == {i \in 1 .. Len(s) : MatchesSelector(s[i])}
    IN  IF idx = {} THEN Null
        ELSE s[CHOOSE i \in idx : \A j \in idx : i <= j]

\* mutant: document.querySelector(...) -- the whole document, not the target
QuerySelectorDocument(t) == FirstMatch(PreOrder(Body))

\* mutant: ":scope > input..." -- only the children of the target
QuerySelectorChildren(t) ==
    FirstMatch(SelectSeq(Tail(PreOrder(t)), LAMBDA n : n \in Children(t)))

\* t.querySelector(sel): the first descendant of t, in document order, that
\* matches; t itself is never a candidate
QuerySelector(t) == FirstMatch(Tail(PreOrder(t)))

----------------------------------------------------------------------------
(* The event *)

NoEvent ==
    [phase |-> "none", target |-> Body, defaultPrevented |-> FALSE, remaining |-> 0]

Init ==
    /\ kind \in [Nodes -> {"div", "range", "text"}]
    /\ \A n \in Nodes : kind[n] \in KindsOf(n)
    /\ dragging \in [Nodes -> AttrValues]
    /\ dragging[Body] = Absent
    /\ listeners = 0
    /\ loads = 0
    /\ event = NoEvent
    /\ lastOutcome = "none"

----------------------------------------------------------------------------
(* htmx.onLoad callback: every htmx:load notification (the page load and   *)
(* every later content load) runs the callback, and every run registers a  *)
(* fresh function object, which addEventListener never dedupes.            *)

AddEventListener == listeners' = listeners + 1

OnLoad ==
    /\ event.phase = "none"
    /\ loads < MaxLoads
    /\ loads' = loads + 1
    /\ AddEventListener
    /\ UNCHANGED <<kind, dragging, event, lastOutcome>>

----------------------------------------------------------------------------
(* The external drag handlers that own the marker *)

DragStart(n) ==
    /\ event.phase = "none"
    /\ kind[n] = "range"
    /\ dragging' = [dragging EXCEPT ![n] = "true"]
    /\ UNCHANGED <<kind, listeners, loads, event, lastOutcome>>

DragEnd(n) ==
    /\ event.phase = "none"
    /\ kind[n] = "range"
    /\ dragging[n] = "true"
    /\ \E v \in FalsyValues \cup {Absent} :
           dragging' = [dragging EXCEPT ![n] = v]
    /\ UNCHANGED <<kind, listeners, loads, event, lastOutcome>>

----------------------------------------------------------------------------
(* The host dispatches htmx:sseBeforeMessage on the element t that is to   *)
(* be updated; the event bubbles to document.body, where every guard       *)
(* listener registered at that moment runs, one after the other.           *)

Dispatch(t) ==
    /\ event.phase = "none"
    /\ event' = [phase |-> "dispatching", target |-> t,
                 defaultPrevented |-> FALSE, remaining |-> listeners]
    /\ UNCHANGED <<kind, dragging, listeners, loads, lastOutcome>>

\* mutant: preventDefault() is called whatever querySelector returns
GuardListenerAlways ==
    /\ event.phase = "dispatching"
    /\ event.remaining > 0
    /\ event' = [event EXCEPT !.remaining = @ - 1, !.defaultPrevented = TRUE]
    /\ UNCHANGED <<kind, dragging, listeners, loads, lastOutcome>>

\* mutant: the listener resets the marker of the input it found
GuardListenerClearsMarker ==
    /\ event.phase = "dispatching"
    /\ event.remaining > 0
    /\ LET found == QuerySelector(event.target)
       IN  /\ event' = [event EXCEPT !.remaining = @ - 1,
                                     !.defaultPrevented = IF found # Null THEN TRUE ELSE @]
           /\ dragging' = IF found # Null THEN [dragging EXCEPT ![found] = "false"]
                          ELSE dragging
    /\ UNCHANGED <<kind, listeners, loads, lastOutcome>>

\* mutant: an async listener, which returns before it calls preventDefault()
GuardListenerDeferred ==
    /\ event.phase = "dispatching"
    /\ event.remaining > 0
    /\ event' = [event EXCEPT !.remaining = @ - 1]
    /\ UNCHANGED <<kind, dragging, listeners, loads, lastOutcome>>

\* mutant: registered with {once: true}, the listener is removed as it runs
GuardListenerOnce ==
    /\ event.phase = "dispatching"
    /\ event.remaining > 0
    /\ event' = [event EXCEPT !.remaining = @ - 1,
                              !.defaultPrevented =
                                  IF QuerySelector(event.target) # Null THEN TRUE ELSE @]
    /\ listeners' = listeners - 1
    /\ UNCHANGED <<kind, dragging, loads, lastOutcome>>

\* one run of the listener of index.js, lines 2-6
GuardListener ==
    /\ event.phase = "dispatching"
    /\ event.remaining > 0
    /\ event' = [event EXCEPT !.remaining = @ - 1,
                              !.defaultPrevented =
                                  IF QuerySelector(event.target) # Null THEN TRUE ELSE @]
    /\ UNCHANGED <<kind, dragging, listeners, loads, lastOutcome>>

\* the strict descendants of t: what an applied update replaces
Replaced(t) == {PreOrder(t)[i] : i \in 2 .. Len(PreOrder(t))}

\* dispatchEvent has returned: the host drops a cancelled update and applies
\* any other one, which puts fresh elements (no marker) in place of the old
HostDecide ==
    /\ event.phase = "dispatching"
    /\ event.remaining = 0
    /\ event' = NoEvent
    /\ IF event.defaultPrevented
       THEN /\ lastOutcome' = "suppressed"
            /\ UNCHANGED dragging
       ELSE /\ lastOutcome' = "applied"
            /\ dragging' = [n \in Nodes |->
                               IF n \in Replaced(event.target) THEN Absent
                               ELSE dragging[n]]
    /\ UNCHANGED <<kind, listeners, loads>>

Next ==
    \/ OnLoad
    \/ \E n \in Nodes : DragStart(n)
    \/ \E n \in Nodes : DragEnd(n)
    \/ \E t \in Nodes : Dispatch(t)
    \/ GuardListener
    \/ HostDecide

Spec == Init /\ [][Next]_vars

----------------------------------------------------------------------------
(* Vocabulary of the properties *)

Parent(n) == (n - 1) \div 2

RECURSIVE Ancestors(_)
Ancestors(n) == IF n = Body THEN {} ELSE {Parent(n)} \cup Ancestors(Parent(n))

\* n lies inside the region t: n is an element that t contains
InRegion(n, t) == t \in Ancestors(n)

\* a range input marked as being dragged
DraggedRange(n) == kind[n] = "range" /\ dragging[n] = "true"

\* the region t contains a range input marked as being dragged
DraggedRangeIn(t) == \E n \in Nodes : InRegion(n, t) /\ DraggedRange(n)

\* every listener has run and dispatchEvent is about to return to the host
Returned == event.phase = "dispatching" /\ event.remaining = 0

\* the event reached at least one guard listener, and all of them have returned
Handled == Returned /\ listeners >= 1

\* a step of the guard listener
ListenerStep ==
    /\ event.phase = "dispatching"
    /\ event.remaining > 0
    /\ event'.phase = "dispatching"
    /\ event'.remaining = event.remaining - 1

----------------------------------------------------------------------------
(* Properties *)

\* C1: a live update that reaches the body listener and whose target region
\* contains a range input with data-dragging="true" is cancelled.
C1_MarkedRegionSuppressed ==
    (Handled /\ DraggedRangeIn(event.target)) => event.defaultPrevented

C1_Witness ==
    /\ Handled
    /\ DraggedRangeIn(event.target)
    /\ event.defaultPrevented
    /\ event.target # Body

\* C2: when the target region contains no range input marked as dragged, the
\* listeners leave the event not cancelled, each listener run changes nothing
\* of the event, and the host goes on to apply the update.
C2_UnmarkedRegionProceeds ==
    /\ [](Returned /\ ~DraggedRangeIn(event.target) => ~event.defaultPrevented)
    /\ [][(ListenerStep /\ ~DraggedRangeIn(event.target))
            => (/\ event'.target = event.target
                /\ event'.defaultPrevented = event.defaultPrevented
                /\ ~event'.defaultPrevented)]_vars
    /\ [][(Returned /\ ~DraggedRangeIn(event.target)) => lastOutcome' = "applied"]_vars

C2_Witness ==
    /\ Handled
    /\ ~DraggedRangeIn(event.target)
    /\ ~event.defaultPrevented
    /\ \E n \in Nodes : DraggedRange(n)

\* C3: if every range input of the target region that carries data-dragging
\* has a falsy value ("false", "0", ""), the event is not cancelled.
C3_FalsyMarkerProceeds ==
    (/\ Returned
     /\ \A n \in Nodes :
            (InRegion(n, event.target) /\ kind[n] = "range" /\ dragging[n] # Absent)
                => dragging[n] \in FalsyValues)
    => ~event.defaultPrevented

C3_Witness ==
    /\ Handled
    /\ ~event.defaultPrevented
    /\ \E n \in Nodes :
           InRegion(n, event.target) /\ kind[n] = "range" /\ dragging[n] \in FalsyValues

\* C4: after any sequence of load notifications delivered to the onLoad
\* callback, exactly one guard listener is registered on the body.
C4_ExactlyOneListener == loads >= 1 => listeners = 1

\* C5: a run of the guard listener leaves every element's data-dragging
\* attribute, and the elements themselves, unchanged.
C5_GuardOnlyReads ==
    [][(event.phase = "dispatching" /\ event.remaining > 0)
          => UNCHANGED <<kind, dragging>>]_vars

C5_Witness ==
    /\ Handled
    /\ event.defaultPrevented
    /\ \E n \in Nodes : InRegion(n, event.target) /\ dragging[n] = "true"
    /\ lastOutcome = "applied"

\* C6: the decision is taken per event from the markers at delivery: an
\* event is cancelled exactly when its region contains a marked range input
\* at that moment, whatever happened to earlier events.
C6_DecidedAtDelivery ==
    Handled => (event.defaultPrevented <=> DraggedRangeIn(event.target))

\* an update that proceeds right after one that was suppressed
C6_Witness ==
    /\ Handled
    /\ lastOutcome = "suppressed"
    /\ ~event.defaultPrevented
    /\ \E n \in Nodes :
           /\ InRegion(n, event.target)
           /\ kind[n] = "range"
           /\ dragging[n] \in FalsyValues \cup {Absent}

\* C7: the guard runs to completion inside the dispatch: while an event is
\* being dispatched a listener is always able to run, the only steps taken
\* are listener runs followed by the host's decision, and a listener that
\* finds the marker has set the cancellation on the event when it returns.
C7_SynchronousGuard ==
    /\ [](event.phase = "dispatching" => ENABLED (GuardListener \/ HostDecide))
    /\ [][event.phase = "dispatching"
            => \/ /\ ListenerStep
                  /\ UNCHANGED <<kind, dragging, listeners>>
                  /\ event'.target = event.target
                  /\ event'.defaultPrevented
                        = (event.defaultPrevented \/ DraggedRangeIn(event.target))
               \/ /\ Returned
                  /\ event'.phase = "none"]_vars

C7_Witness ==
    /\ event.phase = "dispatching"
    /\ event.remaining = 1
    /\ listeners = 2
    /\ event.defaultPrevented

\* C8: the update is cancelled whenever a marked range input exists in the
\* subtree the event targets, the target element itself included.
C8_SubtreeWithRootSuppressed ==
    (Handled /\ \E n \in Nodes :
                    (n = event.target \/ InRegion(n, event.target)) /\ DraggedRange(n))
    => event.defaultPrevented

\* C9: an event targeting region A is not cancelled when elements are marked
\* but each of them is either outside A's subtree or not a range input.
C9_ScopedToRegionAndRange ==
    (/\ Returned
     /\ \E n \in Nodes : dragging[n] = "true"
     /\ \A n \in Nodes :
            dragging[n] = "true"
                => \/ ~(n = event.target \/ InRegion(n, event.target))
                   \/ kind[n] # "range")
    => ~event.defaultPrevented

\* a marked range input outside the region and a marked non-range inside it
C9_Witness ==
    /\ Handled
    /\ ~event.defaultPrevented
    /\ \E n \in Nodes :
           /\ DraggedRange(n)
           /\ ~(n = event.target \/ InRegion(n, event.target))
    /\ \E n \in Nodes :
           /\ InRegion(n, event.target)
           /\ dragging[n] = "true"
           /\ kind[n] # "range"

\* C10: once the onLoad callback has run, one or several times, an event ends
\* up cancelled exactly when a marked range input is in its region, and a
\* cancelled update is dropped: nothing of it is kept, nothing is applied.
C10_IndependentOfListenerCount ==
    /\ [](Returned /\ loads >= 1
            => (event.defaultPrevented <=> DraggedRangeIn(event.target)))
    /\ [][(Returned /\ event.defaultPrevented)
            => (event' = NoEvent /\ UNCHANGED <<kind, dragging, listeners>>)]_vars

C10_Witness ==
    /\ Returned
    /\ loads >= 2
    /\ listeners = loads
    /\ event.defaultPrevented
    /\ lastOutcome = "suppressed"

====
